---- MODULE Spec2Model ----
(***************************************************************************)
(* Items Management console (src/src/app/page.tsx): the React component's *)
(* state, its four asynchronous operations (fetchItems, createItem,        *)
(* updateItem, deleteItem), the UI controls that trigger them, and the     *)
(* HTTP backend the operations talk to.                                    *)
(*                                                                         *)
(* Encoding of JavaScript values:                                          *)
(*   - a string that the code inspects (a name) is a sequence of            *)
(*     one-character strings; other strings are TLA+ strings;              *)
(*   - null | T is a sequence of length 0 (null) or 1 (<<value>>);          *)
(*   - the error message (string | null) is a sequence of tokens, the      *)
(*     empty sequence being null;                                          *)
(*   - an absent id (undefined) is the value Undefined.                    *)
(***************************************************************************)
EXTENDS Integers, Sequences, FiniteSets, TLC

VARIABLES
    items,          \* useState<Item[]>            page.tsx:65
    loading,        \* useState(false)             page.tsx:66
    error,          \* useState<string | null>     page.tsx:67
    editingItem,    \* useState<Item | null>       page.tsx:68
    showCreateForm, \* useState(false)             page.tsx:69
    newItem,        \* useState<Item>              page.tsx:70
    mounted,        \* the mount effect has run    page.tsx:289
    ops,            \* the pending async invocations of the four operations
    server,         \* the backend's collection behind API_BASE_URL
    nOps,           \* number of operations started so far
    nEdits,         \* number of input-change events so far
    ev,             \* the step taken last (what it was, and its outcome)
    logger          \* the Logger: runtime mode and what its last call did

vars == <<items, loading, error, editingItem, showCreateForm, newItem,
          mounted, ops, server, nOps, nEdits, ev, logger>>

----------------------------------------------------------------------------
(* Bounds of the model *)

MaxProcs == 2
MaxOps == 2
MaxEdits == 1
MaxItems == 2

Procs == 1..MaxProcs

----------------------------------------------------------------------------
(* Values *)

Null == <<>>
Some(x) == <<x>>

Undefined == "undefined"

\* item.id is falsy when undefined or ""  (page.tsx:181, 534)
Falsy(id) == id = Undefined \/ id = ""

Space == " "

RECURSIVE TrimStart(_)
TrimStart(s) ==
    IF s # <<>> /\ Head(s) = Space THEN TrimStart(Tail(s)) ELSE s

RECURSIVE TrimEnd(_)
TrimEnd(s) ==
    IF s # <<>> /\ s[Len(s)] = Space THEN TrimEnd(SubSeq(s, 1, Len(s) - 1)) ELSE s

\* String.prototype.trim
Trim(s) == TrimEnd(TrimStart(s))

\* the values typed into the inputs
NameInputs == { <<>>, <<" ">>, <<" ", "W">> }
DescriptionInputs == { "", "A widget" }
CategoryInputs == { "", "tools" }
NaN == -1
PriceInputs == { NaN, 0, 9 }

\* parseFloat(e.target.value) || 0
PriceOrZero(v) == IF v = NaN \/ v = 0 THEN 0 ELSE v

EmptyDraft == [name |-> <<>>, description |-> "", category |-> "", price |-> 0]

\* response.ok
Ok(status) == status >= 200 /\ status <= 299

\* the non-success statuses the backend answers with: 404 only where the
\* request names an item
FailStatuses(method) ==
    IF method \in {"PUT", "DELETE"} THEN { 404, 500 } ELSE { 500 }

\* `HTTP error! status: ${response.status}`
HttpErrorMessage(status) == << "HTTP error! status: ", ToString(status) >>
FetchRejectMessage == << "Failed to fetch" >>
JsonParseMessage == << "Unexpected token in JSON" >>
BodyReadMessage == << "Failed to read body" >>

Contains(msg, token) == \E i \in 1..Len(msg) : msg[i] = token

----------------------------------------------------------------------------
(* Asynchronous invocations *)

\* An invocation of one of the four operations that is suspended at an await.
\*   kind   "list" | "create" | "update" | "delete": the function invoked
\*   call   "own": the function's own request; "get": the GET of fetchItems
\*          (the function itself for "list", the nested refresh otherwise)
\*   pc     "req":  await fetch(...), request on its way to the backend
\*          "resp": await fetch(...), response on its way back
\*          "json": await response.json()
\*          "text": await response.text()
\*   arg    the argument (<<item>> or <<id>>)
\*   status, bkind, data: the response of the call in progress
\*   ownOut, ownStatus: how the function's own request ended
\*   gets   number of GET requests the invocation has sent
Idle ==
    [kind |-> "idle", call |-> "none", pc |-> "idle", arg |-> <<>>,
     status |-> 0, bkind |-> "none", data |-> <<>>,
     ownOut |-> "none", ownStatus |-> 0, gets |-> 0]

Active(p) == ops[p].kind # "idle"

\* the HTTP request an invocation has in flight
Method(op) ==
    CASE op.call = "get" -> "GET"
      [] op.kind = "create" -> "POST"
      [] op.kind = "update" -> "PUT"
      [] OTHER -> "DELETE"

InFlight(p) == Active(p) /\ ops[p].pc \in {"req", "resp"}

HasFreeProc == \E p \in Procs : ~Active(p)
FreeProc == CHOOSE p \in Procs : ~Active(p) /\ \A q \in Procs : q < p => Active(q)

CanStart == nOps < MaxOps /\ HasFreeProc

Ev(kind, step, ownOut, ownStatus, getOut, getStatus, gets) ==
    [kind |-> kind, step |-> step, ownOut |-> ownOut, ownStatus |-> ownStatus,
     getOut |-> getOut, getStatus |-> getStatus, gets |-> gets]

UiEv == Ev("ui", "local", "none", 0, "none", 0, 0)
OpEv(op, step) == Ev(op.kind, step, op.ownOut, op.ownStatus, "none", 0, op.gets)
FinishEv(op, getOut) ==
    Ev(op.kind, "finish", op.ownOut, op.ownStatus, getOut,
       IF getOut = "status" THEN op.status ELSE 0, op.gets)

----------------------------------------------------------------------------
(* The backend *)

Widget ==
    [id |-> "abc", name |-> <<"W">>, description |-> "A widget",
     category |-> "tools", price |-> 9]
Legacy == [Widget EXCEPT !.id = Undefined]
Blank == [Widget EXCEPT !.id = ""]

\* collections the backend may hold when the page is opened
InitServers == { <<>>, <<Widget, Legacy>>, <<Blank>> }

IdsOf(coll) == { coll[i].id : i \in 1..Len(coll) }

\* the id the backend assigns to a created item
FreshId(coll) ==
    ToString(CHOOSE n \in 1..(Len(coll) + 1) :
                /\ ToString(n) \notin IdsOf(coll)
                /\ \A m \in 1..(n - 1) : ToString(m) \in IdsOf(coll))

Created(coll, body) ==
    [id |-> FreshId(coll), name |-> body.name, description |-> body.description,
     category |-> body.category, price |-> body.price]

RECURSIVE Without(_, _)
Without(coll, id) ==
    IF coll = <<>> THEN <<>>
    ELSE IF Head(coll).id = id THEN Without(Tail(coll), id)
         ELSE <<Head(coll)>> \o Without(Tail(coll), id)

Replaced(coll, item) ==
    [i \in 1..Len(coll) |-> IF coll[i].id = item.id THEN item ELSE coll[i]]

\* what the backend may answer to a request, and the collection it then holds
Responses(op) ==
    LET method == Method(op)
        failures ==
            { [status |-> s, bkind |-> "text", data |-> <<>>, coll |-> server] :
                s \in FailStatuses(method) }
        successes ==
            CASE method = "GET" ->
                   { [status |-> 200, bkind |-> b,
                      data |-> IF b = "array" THEN server ELSE <<>>,
                      coll |-> server] : b \in {"array", "object", "garbage"} }
              [] method = "POST" ->
                   IF Len(server) < MaxItems
                   THEN { [status |-> 201, bkind |-> b, data |-> <<>>,
                           coll |-> Append(server, Created(server, op.arg[1]))] :
                            b \in {"object", "garbage"} }
                   ELSE {}
              [] method = "PUT" ->
                   IF op.arg[1].id \in IdsOf(server)
                   THEN { [status |-> 200, bkind |-> b, data |-> <<>>,
                           coll |-> Replaced(server, op.arg[1])] :
                            b \in {"object", "garbage"} }
                   ELSE {}
              [] OTHER ->
                   IF op.arg[1] \in IdsOf(server)
                   THEN { [status |-> 200, bkind |-> "empty", data |-> <<>>,
                           coll |-> Without(server, op.arg[1])] }
                   ELSE {}
    IN  failures \cup successes

\* the backend handles a request and answers it
ServerHandle(p) ==
    /\ Active(p)
    /\ ops[p].pc = "req"
    /\ \E r \in Responses(ops[p]) :
         /\ server' = r.coll
         /\ ops' = [ops EXCEPT ![p] = [@ EXCEPT !.pc = "resp", !.status = r.status,
                                                !.bkind = r.bkind, !.data = r.data]]
    /\ ev' = OpEv(ops[p], "server")
    /\ UNCHANGED <<items, loading, error, editingItem, showCreateForm, newItem,
                   mounted, nOps, nEdits, logger>>

----------------------------------------------------------------------------
(* fetchItems *)

\* fetchItemsCall with the setError(null) left out
fetchItemsCallKeepsError(p, op) ==
    /\ loading' = TRUE
    /\ error' = error
    /\ ops' = [ops EXCEPT ![p] = [op EXCEPT !.call = "get", !.pc = "req",
                                            !.status = 0, !.bkind = "none",
                                            !.data = <<>>, !.gets = @ + 1]]

\* try { setLoading(true); setError(null); ... await fetch(API_BASE_URL)
fetchItemsCall(p, op) ==
    /\ loading' = TRUE
    /\ error' = Null
    /\ ops' = [ops EXCEPT ![p] = [op EXCEPT !.call = "get", !.pc = "req",
                                            !.status = 0, !.bkind = "none",
                                            !.data = <<>>, !.gets = @ + 1]]

\* fetchItemsSettle with the setItems(itemsArray) of the success path left out
fetchItemsSettleWithoutSetItems(out, status, data) ==
    /\ items' = IF out = "array" THEN items ELSE <<>>
    /\ error' = CASE out \in {"array", "nonarray"} -> error
                  [] out = "status" -> HttpErrorMessage(status)
                  [] out = "reject" -> FetchRejectMessage
                  [] OTHER -> JsonParseMessage

\* fetchItemsSettle with the setItems([]) of the catch block left out
fetchItemsSettleWithoutClear(out, status, data) ==
    /\ items' = IF out = "array" THEN data
                ELSE IF out = "nonarray" THEN <<>> ELSE items
    /\ error' = CASE out \in {"array", "nonarray"} -> error
                  [] out = "status" -> HttpErrorMessage(status)
                  [] out = "reject" -> FetchRejectMessage
                  [] OTHER -> JsonParseMessage

\* fetchItemsSettle that throws on a body that is not an array
fetchItemsSettleRejectsNonArray(out, status, data) ==
    /\ items' = IF out = "array" THEN data ELSE <<>>
    /\ error' = CASE out = "array" -> error
                  [] out = "status" -> HttpErrorMessage(status)
                  [] out = "reject" -> FetchRejectMessage
                  [] OTHER -> JsonParseMessage

\* the rest of the try block and the catch block, by the outcome of the GET:
\*   "array" / "nonarray": response.ok and the body parsed
\*   "status": !response.ok; "reject": fetch rejected; "parse": json() rejected
fetchItemsSettle(out, status, data) ==
    /\ items' = IF out = "array" THEN data ELSE <<>>
    /\ error' = CASE out \in {"array", "nonarray"} -> error
                  [] out = "status" -> HttpErrorMessage(status)
                  [] out = "reject" -> FetchRejectMessage
                  [] OTHER -> JsonParseMessage

\* finally { setLoading(false) } of a fetchItems that was invoked on its own
fetchItemsFinally(p, out) ==
    /\ loading' = FALSE
    /\ ops' = [ops EXCEPT ![p] = Idle]
    /\ ev' = FinishEv(ops[p], out)
    /\ UNCHANGED <<editingItem, showCreateForm, newItem>>

----------------------------------------------------------------------------
(* createItem *)

\* createItem that calls setError(null) at its start as fetchItems does
createItemClearsError(item) ==
    /\ CanStart
    /\ loading' = TRUE
    /\ error' = Null
    /\ ops' = [ops EXCEPT ![FreeProc] =
                 [Idle EXCEPT !.kind = "create", !.call = "own", !.pc = "req",
                              !.arg = Some(item)]]
    /\ nOps' = nOps + 1
    /\ ev' = Ev("create", "start", "none", 0, "none", 0, 0)
    /\ UNCHANGED <<items, editingItem, showCreateForm, newItem, mounted,
                   server, logger, nEdits>>

\* createItem up to its await fetch(API_BASE_URL, {method: 'POST', ...})
createItem(item) ==
    /\ CanStart
    /\ loading' = TRUE
    /\ ops' = [ops EXCEPT ![FreeProc] =
                 [Idle EXCEPT !.kind = "create", !.call = "own", !.pc = "req",
                              !.arg = Some(item)]]
    /\ nOps' = nOps + 1
    /\ ev' = Ev("create", "start", "none", 0, "none", 0, 0)
    /\ UNCHANGED <<items, error, editingItem, showCreateForm, newItem, mounted,
                   server, logger, nEdits>>

\* createItemResume with the setNewItem({...}) reset left out
createItemResumeKeepsDraft(p, out) ==
    /\ showCreateForm' = FALSE
    /\ loading' = FALSE
    /\ ops' = [ops EXCEPT ![p] = Idle]
    /\ ev' = FinishEv(ops[p], out)
    /\ UNCHANGED <<editingItem, newItem>>

\* createItem after await fetchItems(): close the form, reset the draft, finally
createItemResume(p, out) ==
    /\ showCreateForm' = FALSE
    /\ newItem' = EmptyDraft
    /\ loading' = FALSE
    /\ ops' = [ops EXCEPT ![p] = Idle]
    /\ ev' = FinishEv(ops[p], out)
    /\ UNCHANGED editingItem

\* createItemCatch that also resets the draft and closes the form
createItemCatchResetsDraft(p, out, msg) ==
    /\ error' = msg
    /\ showCreateForm' = FALSE
    /\ newItem' = EmptyDraft
    /\ loading' = FALSE
    /\ ops' = [ops EXCEPT ![p] = Idle]
    /\ ev' = FinishEv([ops[p] EXCEPT !.ownOut = out], "none")
    /\ UNCHANGED <<items, editingItem>>

\* createItemCatch without the finally block
createItemCatchWithoutFinally(p, out, msg) ==
    /\ error' = msg
    /\ ops' = [ops EXCEPT ![p] = Idle]
    /\ ev' = FinishEv([ops[p] EXCEPT !.ownOut = out], "none")
    /\ UNCHANGED <<items, loading, editingItem, showCreateForm, newItem>>

\* createItem's catch and finally
createItemCatch(p, out, msg) ==
    /\ error' = msg
    /\ loading' = FALSE
    /\ ops' = [ops EXCEPT ![p] = Idle]
    /\ ev' = FinishEv([ops[p] EXCEPT !.ownOut = out], "none")
    /\ UNCHANGED <<items, editingItem, showCreateForm, newItem>>

----------------------------------------------------------------------------
(* updateItem *)

\* updateItem without the if (!item.id) return
updateItemWithoutIdCheck(item) ==
    /\ CanStart
    /\ loading' = TRUE
    /\ ops' = [ops EXCEPT ![FreeProc] =
                 [Idle EXCEPT !.kind = "update", !.call = "own", !.pc = "req",
                              !.arg = Some(item)]]
    /\ nOps' = nOps + 1
    /\ ev' = Ev("update", "start", "none", 0, "none", 0, 0)
    /\ UNCHANGED <<items, error, editingItem, showCreateForm, newItem,
                   mounted, server, logger, nEdits>>

\* updateItem up to its await fetch(url, {method: 'PUT', ...})
updateItem(item) ==
    IF Falsy(item.id)
    THEN /\ ev' = Ev("update", "skip", "none", 0, "none", 0, 0)
         /\ UNCHANGED <<items, loading, error, editingItem, showCreateForm,
                        newItem, mounted, ops, server, logger, nOps, nEdits>>
    ELSE /\ CanStart
         /\ loading' = TRUE
         /\ ops' = [ops EXCEPT ![FreeProc] =
                      [Idle EXCEPT !.kind = "update", !.call = "own", !.pc = "req",
                                   !.arg = Some(item)]]
         /\ nOps' = nOps + 1
         /\ ev' = Ev("update", "start", "none", 0, "none", 0, 0)
         /\ UNCHANGED <<items, error, editingItem, showCreateForm, newItem,
                        mounted, server, logger, nEdits>>

\* updateItemResume with the setEditingItem(null) left out
updateItemResumeKeepsEditing(p, out) ==
    /\ loading' = FALSE
    /\ ops' = [ops EXCEPT ![p] = Idle]
    /\ ev' = FinishEv(ops[p], out)
    /\ UNCHANGED <<editingItem, showCreateForm, newItem>>

\* updateItem after await fetchItems(): clear the edit target, finally
updateItemResume(p, out) ==
    /\ editingItem' = Null
    /\ loading' = FALSE
    /\ ops' = [ops EXCEPT ![p] = Idle]
    /\ ev' = FinishEv(ops[p], out)
    /\ UNCHANGED <<showCreateForm, newItem>>

\* updateItemCatch that also drops the edit target
updateItemCatchClearsEditing(p, out, msg) ==
    /\ error' = msg
    /\ editingItem' = Null
    /\ loading' = FALSE
    /\ ops' = [ops EXCEPT ![p] = Idle]
    /\ ev' = FinishEv([ops[p] EXCEPT !.ownOut = out], "none")
    /\ UNCHANGED <<items, showCreateForm, newItem>>

\* updateItem's catch and finally
updateItemCatch(p, out, msg) ==
    /\ error' = msg
    /\ loading' = FALSE
    /\ ops' = [ops EXCEPT ![p] = Idle]
    /\ ev' = FinishEv([ops[p] EXCEPT !.ownOut = out], "none")
    /\ UNCHANGED <<items, editingItem, showCreateForm, newItem>>

----------------------------------------------------------------------------
(* deleteItem *)

\* deleteItem that returns at once for an id that is not in the list
deleteItemIfListed(id) ==
    /\ id \in IdsOf(items)
    /\ CanStart
    /\ loading' = TRUE
    /\ ops' = [ops EXCEPT ![FreeProc] =
                 [Idle EXCEPT !.kind = "delete", !.call = "own", !.pc = "req",
                              !.arg = Some(id)]]
    /\ nOps' = nOps + 1
    /\ ev' = Ev("delete", "start", "none", 0, "none", 0, 0)
    /\ UNCHANGED <<items, error, editingItem, showCreateForm, newItem, mounted,
                   server, logger, nEdits>>

\* deleteItem up to its await fetch(url, {method: 'DELETE'})
deleteItem(id) ==
    /\ CanStart
    /\ loading' = TRUE
    /\ ops' = [ops EXCEPT ![FreeProc] =
                 [Idle EXCEPT !.kind = "delete", !.call = "own", !.pc = "req",
                              !.arg = Some(id)]]
    /\ nOps' = nOps + 1
    /\ ev' = Ev("delete", "start", "none", 0, "none", 0, 0)
    /\ UNCHANGED <<items, error, editingItem, showCreateForm, newItem, mounted,
                   server, logger, nEdits>>

\* deleteItem after await fetchItems(): finally
deleteItemResume(p, out) ==
    /\ loading' = FALSE
    /\ ops' = [ops EXCEPT ![p] = Idle]
    /\ ev' = FinishEv(ops[p], out)
    /\ UNCHANGED <<editingItem, showCreateForm, newItem>>

\* deleteItemCatch that clears the list as the catch of fetchItems does
deleteItemCatchClearsList(p, out, msg) ==
    /\ error' = msg
    /\ items' = <<>>
    /\ loading' = FALSE
    /\ ops' = [ops EXCEPT ![p] = Idle]
    /\ ev' = FinishEv([ops[p] EXCEPT !.ownOut = out], "none")
    /\ UNCHANGED <<editingItem, showCreateForm, newItem>>

\* deleteItem's catch and finally
deleteItemCatch(p, out, msg) ==
    /\ error' = msg
    /\ loading' = FALSE
    /\ ops' = [ops EXCEPT ![p] = Idle]
    /\ ev' = FinishEv([ops[p] EXCEPT !.ownOut = out], "none")
    /\ UNCHANGED <<items, editingItem, showCreateForm, newItem>>

----------------------------------------------------------------------------
(* Resumption of the awaits *)

\* an invocation moves on to its next await
Suspend(p, op, step) ==
    /\ ops' = [ops EXCEPT ![p] = op]
    /\ ev' = OpEv(op, step)
    /\ UNCHANGED <<items, loading, error, editingItem, showCreateForm, newItem,
                   mounted, server, logger, nOps, nEdits>>

\* fetchItemsReturn with a sequence guard: a response is applied only when no
\* other invocation is pending
fetchItemsReturnIfLatest(p, out) ==
    /\ IF \E q \in Procs : q # p /\ Active(q)
       THEN UNCHANGED <<items, error>>
       ELSE fetchItemsSettle(out, ops[p].status, ops[p].data)
    /\ CASE ops[p].kind = "list" -> fetchItemsFinally(p, out)
         [] ops[p].kind = "create" -> createItemResume(p, out)
         [] ops[p].kind = "update" -> updateItemResume(p, out)
         [] OTHER -> deleteItemResume(p, out)
    /\ UNCHANGED <<mounted, server, logger, nOps, nEdits>>

\* fetchItemsReturn whose catch rethrows: a mutation that awaited a failed
\* fetchItems goes to its own catch and finally instead of resuming
fetchItemsReturnRethrows(p, out) ==
    /\ fetchItemsSettle(out, ops[p].status, ops[p].data)
    /\ IF ops[p].kind # "list" /\ out \in {"status", "reject", "parse"}
       THEN /\ loading' = FALSE
            /\ ops' = [ops EXCEPT ![p] = Idle]
            /\ ev' = FinishEv(ops[p], out)
            /\ UNCHANGED <<editingItem, showCreateForm, newItem>>
       ELSE CASE ops[p].kind = "list" -> fetchItemsFinally(p, out)
              [] ops[p].kind = "create" -> createItemResume(p, out)
              [] ops[p].kind = "update" -> updateItemResume(p, out)
              [] OTHER -> deleteItemResume(p, out)
    /\ UNCHANGED <<mounted, server, logger, nOps, nEdits>>

\* fetchItems ends in invocation p; a mutation that awaited it resumes
fetchItemsReturn(p, out) ==
    /\ fetchItemsSettle(out, ops[p].status, ops[p].data)
    /\ CASE ops[p].kind = "list" -> fetchItemsFinally(p, out)
         [] ops[p].kind = "create" -> createItemResume(p, out)
         [] ops[p].kind = "update" -> updateItemResume(p, out)
         [] OTHER -> deleteItemResume(p, out)
    /\ UNCHANGED <<mounted, server, logger, nOps, nEdits>>

\* a mutation's own request threw inside its try block
MutationThrows(p, out, msg) ==
    /\ CASE ops[p].kind = "create" -> createItemCatch(p, out, msg)
         [] ops[p].kind = "update" -> updateItemCatch(p, out, msg)
         [] OTHER -> deleteItemCatch(p, out, msg)
    /\ UNCHANGED <<mounted, server, logger, nOps, nEdits>>

\* MutationRefreshes with the await fetchItems() left out
MutationRefreshesWithoutFetch(p, op) ==
    /\ loading' = FALSE
    /\ ops' = [ops EXCEPT ![p] = Idle]
    /\ ev' = FinishEv([op EXCEPT !.ownOut = "ok"], "none")
    /\ showCreateForm' = IF op.kind = "create" THEN FALSE ELSE showCreateForm
    /\ newItem' = IF op.kind = "create" THEN EmptyDraft ELSE newItem
    /\ editingItem' = IF op.kind = "update" THEN Null ELSE editingItem
    /\ UNCHANGED <<items, error, mounted, server, logger, nOps, nEdits>>

\* a mutation's own request went through: await fetchItems()
MutationRefreshes(p, op) ==
    /\ fetchItemsCall(p, [op EXCEPT !.ownOut = "ok"])
    /\ ev' = OpEv([op EXCEPT !.ownOut = "ok", !.gets = @ + 1], "refresh")
    /\ UNCHANGED <<items, editingItem, showCreateForm, newItem, mounted, server, logger,
                   nOps, nEdits>>

\* await fetch(...) rejects: the request or its response is lost
FetchRejects(p) ==
    /\ InFlight(p)
    /\ IF ops[p].call = "get"
       THEN fetchItemsReturn(p, "reject")
       ELSE MutationThrows(p, "reject", FetchRejectMessage)

\* await fetch(...) resolves with the response; if (!response.ok) ...
FetchResolves(p) ==
    /\ Active(p)
    /\ ops[p].pc = "resp"
    /\ LET op == ops[p]
           own == [op EXCEPT !.ownStatus = op.status]
       IN  IF op.call = "get"
           THEN IF Ok(op.status)
                THEN Suspend(p, [op EXCEPT !.pc = "json"], "response")
                ELSE fetchItemsReturn(p, "status")
           ELSE IF ~Ok(op.status)
                THEN Suspend(p, [own EXCEPT !.pc = "text"], "response")
                ELSE IF op.kind = "delete"
                     THEN MutationRefreshes(p, own)
                     ELSE Suspend(p, [own EXCEPT !.pc = "json"], "response")

\* JsonSettles where a mutation does not await response.json(): a body that
\* does not parse goes unnoticed
JsonSettlesWithoutParsing(p) ==
    /\ Active(p)
    /\ ops[p].pc = "json"
    /\ IF ops[p].call = "get"
       THEN fetchItemsReturn(p, CASE ops[p].bkind = "array" -> "array"
                                  [] ops[p].bkind = "object" -> "nonarray"
                                  [] OTHER -> "parse")
       ELSE MutationRefreshes(p, ops[p])

\* await response.json() resolves or rejects
JsonSettles(p) ==
    /\ Active(p)
    /\ ops[p].pc = "json"
    /\ IF ops[p].call = "get"
       THEN fetchItemsReturn(p, CASE ops[p].bkind = "array" -> "array"
                                  [] ops[p].bkind = "object" -> "nonarray"
                                  [] OTHER -> "parse")
       ELSE IF ops[p].bkind = "garbage"
            THEN MutationThrows(p, "parse", JsonParseMessage)
            ELSE MutationRefreshes(p, ops[p])

\* await response.text() resolves (then the HTTP error is thrown) or rejects
TextSettles(p) ==
    /\ Active(p)
    /\ ops[p].pc = "text"
    /\ \/ MutationThrows(p, "status", HttpErrorMessage(ops[p].status))
       \/ MutationThrows(p, "text", BodyReadMessage)

----------------------------------------------------------------------------
(* The page: effects and controls *)

\* fetchItems that returns at once while loading is set
fetchItemsUnlessLoading ==
    /\ ~loading
    /\ CanStart
    /\ fetchItemsCall(FreeProc, [Idle EXCEPT !.kind = "list"])
    /\ nOps' = nOps + 1
    /\ ev' = Ev("list", "start", "none", 0, "none", 0, 1)
    /\ UNCHANGED <<items, editingItem, showCreateForm, newItem, server, logger, nEdits>>

\* fetchItems up to its await fetch(API_BASE_URL)
fetchItems ==
    /\ CanStart
    /\ fetchItemsCall(FreeProc, [Idle EXCEPT !.kind = "list"])
    /\ nOps' = nOps + 1
    /\ ev' = Ev("list", "start", "none", 0, "none", 0, 1)
    /\ UNCHANGED <<items, editingItem, showCreateForm, newItem, server, logger, nEdits>>

\* useEffect(() => { ...; fetchItems(); }, [])
Mount ==
    /\ ~mounted
    /\ mounted' = TRUE
    /\ fetchItems

\* the effect run a second time right after the first, as React's development
\* StrictMode runs mount effects: a second fetchItems() while the first is
\* still awaiting its response
Remount ==
    /\ mounted
    /\ nOps = 1
    /\ ev = Ev("list", "start", "none", 0, "none", 0, 1)
    /\ \A p \in Procs : Active(p) <=> p = 1
    /\ HasFreeProc
    /\ fetchItemsCall(FreeProc, [Idle EXCEPT !.kind = "list"])
    /\ ev' = Ev("list", "start", "none", 0, "none", 0, 1)
    /\ UNCHANGED <<items, editingItem, showCreateForm, newItem, mounted, server, logger,
                   nOps, nEdits>>

\* a control of the page that only changes local state
Local ==
    /\ ev' = UiEv
    /\ UNCHANGED <<mounted, ops, server, logger, nOps>>

\* row i of the list is rendered as the edit form
EditFormAt(i) == editingItem # Null /\ editingItem[1].id = items[i].id
EditFormShown == \E i \in 1..Len(items) : EditFormAt(i)

CanType == nEdits < MaxEdits

\* "Add Item"
ClickAddItem ==
    /\ mounted /\ ~loading
    /\ showCreateForm' = TRUE
    /\ Local
    /\ UNCHANGED <<items, loading, error, editingItem, newItem, nEdits>>

\* Refresh without disabled={loading}
ClickRefreshWhileLoading ==
    /\ mounted
    /\ fetchItems
    /\ UNCHANGED mounted

\* "Refresh"
ClickRefresh ==
    /\ mounted /\ ~loading
    /\ fetchItems
    /\ UNCHANGED mounted

\* the X of the error banner
DismissError ==
    /\ mounted /\ error # Null
    /\ error' = Null
    /\ Local
    /\ UNCHANGED <<items, loading, editingItem, showCreateForm, newItem, nEdits>>

\* the inputs of the create form
ChangeNewItem(field, value) ==
    /\ mounted /\ showCreateForm /\ CanType
    /\ newItem' = [newItem EXCEPT ![field] = value]
    /\ nEdits' = nEdits + 1
    /\ Local
    /\ UNCHANGED <<items, loading, error, editingItem, showCreateForm>>

ChangeNewItemName == \E v \in NameInputs : ChangeNewItem("name", v)
ChangeNewItemCategory == \E v \in CategoryInputs : ChangeNewItem("category", v)
ChangeNewItemPrice == \E v \in PriceInputs : ChangeNewItem("price", PriceOrZero(v))
ChangeNewItemDescription ==
    \E v \in DescriptionInputs : ChangeNewItem("description", v)

\* "Create Item"
ClickCreateItem ==
    /\ mounted /\ showCreateForm
    /\ ~(loading \/ Trim(newItem.name) = <<>>)
    /\ createItem(newItem)

\* "Cancel" of the create form
ClickCancelCreate ==
    /\ mounted /\ showCreateForm
    /\ showCreateForm' = FALSE
    /\ Local
    /\ UNCHANGED <<items, loading, error, editingItem, newItem, nEdits>>

\* ChangeEditingItem that writes the field into the displayed row as well
ChangeEditingItemInPlace(field, value) ==
    /\ mounted /\ EditFormShown /\ CanType
    /\ editingItem' = Some([editingItem[1] EXCEPT ![field] = value])
    /\ items' = [i \in 1..Len(items) |->
                   IF EditFormAt(i) THEN [items[i] EXCEPT ![field] = value]
                   ELSE items[i]]
    /\ nEdits' = nEdits + 1
    /\ Local
    /\ UNCHANGED <<loading, error, showCreateForm, newItem>>

\* the inputs of the edit form
ChangeEditingItem(field, value) ==
    /\ mounted /\ EditFormShown /\ CanType
    /\ editingItem' = Some([editingItem[1] EXCEPT ![field] = value])
    /\ nEdits' = nEdits + 1
    /\ Local
    /\ UNCHANGED <<items, loading, error, showCreateForm, newItem>>

ChangeEditingItemName == \E v \in NameInputs : ChangeEditingItem("name", v)
ChangeEditingItemCategory == \E v \in CategoryInputs : ChangeEditingItem("category", v)
ChangeEditingItemPrice ==
    \E v \in PriceInputs : ChangeEditingItem("price", PriceOrZero(v))
ChangeEditingItemDescription ==
    \E v \in DescriptionInputs : ChangeEditingItem("description", v)

\* "Save" of the edit form
ClickSave ==
    /\ mounted /\ EditFormShown /\ ~loading
    /\ updateItem(editingItem[1])

\* "Cancel" of the edit form
ClickCancelEdit ==
    /\ mounted /\ EditFormShown
    /\ editingItem' = Null
    /\ Local
    /\ UNCHANGED <<items, loading, error, showCreateForm, newItem, nEdits>>

\* the Edit button of a displayed row
ClickEdit(i) ==
    /\ mounted /\ ~loading /\ ~EditFormAt(i)
    /\ editingItem' = Some(items[i])
    /\ Local
    /\ UNCHANGED <<items, loading, error, showCreateForm, newItem, nEdits>>

\* the Delete button of a displayed row: item.id && deleteItem(item.id)
ClickDelete(i) ==
    /\ mounted /\ ~loading /\ ~EditFormAt(i)
    /\ IF Falsy(items[i].id)
       THEN /\ Local
            /\ UNCHANGED <<items, loading, error, editingItem, showCreateForm,
                           newItem, nEdits>>
       ELSE deleteItem(items[i].id)

----------------------------------------------------------------------------
(* Logger *)

\* LoggerFactory.getLogger('ItemsManagementApp')
ClassName == "ItemsManagementApp"

\* process.env.NODE_ENV
Modes == { "development", "production", "test" }

MaxArgs == 2

\* context values handed to a logger call: a string, undefined, and an object
\* that refers to itself
ArgValues ==
    { [t |-> "string", v |-> "abc"],
      [t |-> "undefined", v |-> ""],
      [t |-> "circular", v |-> ""] }

ArgLists == UNION { [1..n -> ArgValues] : n \in 0..MaxArgs }

Messages == { "Starting to fetch all items", "Update attempted without item ID" }

\* the optional error?: Error of Logger.error: absent, or its message and stack
ErrorArgs == { <<>>, <<"HTTP 500", "Error: HTTP 500 at createItem">> }

\* JSON.stringify throws a TypeError on a circular structure
StringifyThrows(args) == \E i \in 1..Len(args) : args[i].t = "circular"

\* JSON.stringify of one element of an array: undefined becomes null
JsonValue(a) == IF a.t = "string" THEN "\"" \o a.v \o "\"" ELSE "null"

RECURSIVE JsonElements(_)
JsonElements(args) ==
    IF args = <<>> THEN <<>>
    ELSE IF Len(args) = 1 THEN <<JsonValue(args[1])>>
         ELSE <<JsonValue(args[1]), ",">> \o JsonElements(Tail(args))

\* JSON.stringify(args) where it returns
JsonStringify(args) == <<"[">> \o JsonElements(args) \o <<"]">>

\* Logger.formatMessage where it returns
formatMessage(level, message, args) ==
    << "[", "timestamp", "] ", level, " ", ClassName, " - ", message >>
        \o (IF Len(args) > 0 THEN <<" | Args: ">> \o JsonStringify(args) ELSE <<>>)

\* a call that reaches console.<sink>(this.formatMessage(level, message, ...args)
\* + suffix): it writes one line, or formatMessage throws out of the call
Write(method, level, message, args, suffix) ==
    logger' =
        IF Len(args) > 0 /\ StringifyThrows(args)
        THEN [logger EXCEPT !.call = method, !.out = <<>>, !.threw = TRUE]
        ELSE [logger EXCEPT !.call = method, !.threw = FALSE,
                            !.out = <<formatMessage(level, message, args) \o suffix>>]

\* a call that returns without writing
Silent(method) ==
    logger' = [logger EXCEPT !.call = method, !.out = <<>>, !.threw = FALSE]

appVars == <<items, loading, error, editingItem, showCreateForm, newItem,
             mounted, ops, server, nOps, nEdits, ev>>

\* Logger.info
LoggerInfo(message, args) ==
    /\ Write("info", "INFO", message, args, <<>>)
    /\ UNCHANGED appVars

\* Logger.debug
LoggerDebug(message, args) ==
    /\ IF logger.NODE_ENV = "development"
       THEN Write("debug", "DEBUG", message, args, <<>>)
       ELSE Silent("debug")
    /\ UNCHANGED appVars

\* Logger.warn
LoggerWarn(message, args) ==
    /\ Write("warn", "WARN", message, args, <<>>)
    /\ UNCHANGED appVars

\* Logger.error
LoggerError(message, err, args) ==
    /\ Write("error", "ERROR", message, args,
             IF err # <<>>
             THEN <<" | Error: ", err[1], " | Stack: ", err[2]>>
             ELSE <<>>)
    /\ UNCHANGED appVars

\* Logger.trace
LoggerTrace(message, args) ==
    /\ IF logger.NODE_ENV = "development"
       THEN Write("trace", "TRACE", message, args, <<>>)
       ELSE Silent("trace")
    /\ UNCHANGED appVars

----------------------------------------------------------------------------
(* Specification *)

Init ==
    /\ items = <<>>
    /\ loading = FALSE
    /\ error = Null
    /\ editingItem = Null
    /\ showCreateForm = FALSE
    /\ newItem = EmptyDraft
    /\ mounted = FALSE
    /\ ops = [p \in Procs |-> Idle]
    /\ server \in InitServers
    /\ nOps = 0
    /\ nEdits = 0
    /\ ev = Ev("init", "init", "none", 0, "none", 0, 0)
    /\ logger = [NODE_ENV |-> "production", call |-> "none", out |-> <<>>,
                 threw |-> FALSE]

Next ==
    \/ Mount
    \/ ClickAddItem
    \/ ClickRefresh
    \/ DismissError
    \/ ChangeNewItemName
    \/ ChangeNewItemCategory
    \/ ChangeNewItemPrice
    \/ ChangeNewItemDescription
    \/ ClickCreateItem
    \/ ClickCancelCreate
    \/ ChangeEditingItemName
    \/ ChangeEditingItemCategory
    \/ ChangeEditingItemPrice
    \/ ChangeEditingItemDescription
    \/ ClickSave
    \/ ClickCancelEdit
    \/ \E i \in 1..Len(items) : ClickEdit(i)
    \/ \E i \in 1..Len(items) : ClickDelete(i)
    \/ \E p \in Procs : ServerHandle(p)
    \/ \E p \in Procs : FetchRejects(p)
    \/ \E p \in Procs : FetchResolves(p)
    \/ \E p \in Procs : JsonSettles(p)
    \/ \E p \in Procs : TextSettles(p)

Spec == Init /\ [][Next]_vars

\* a step of the network: the backend answers, a response or a body arrives
NetworkStep ==
    \E p \in Procs :
        ServerHandle(p) \/ FetchResolves(p) \/ JsonSettles(p) \/ TextSettles(p)

\* no HTTP call hangs: the network keeps delivering while a call is pending
Network == WF_vars(NetworkStep)

FairSpec == Spec /\ Network

\* the Logger on its own: calls of its five methods in each runtime mode
LogInit ==
    /\ items = <<>>
    /\ loading = FALSE
    /\ error = Null
    /\ editingItem = Null
    /\ showCreateForm = FALSE
    /\ newItem = EmptyDraft
    /\ mounted = FALSE
    /\ ops = [p \in Procs |-> Idle]
    /\ server = <<>>
    /\ nOps = 0
    /\ nEdits = 0
    /\ ev = Ev("init", "init", "none", 0, "none", 0, 0)
    /\ logger \in { [NODE_ENV |-> m, call |-> "none", out |-> <<>>, threw |-> FALSE] :
                      m \in Modes }

LogNext ==
    \/ \E m \in Messages, a \in ArgLists : LoggerInfo(m, a)
    \/ \E m \in Messages, a \in ArgLists : LoggerDebug(m, a)
    \/ \E m \in Messages, a \in ArgLists : LoggerWarn(m, a)
    \/ \E m \in Messages, e \in ErrorArgs, a \in ArgLists : LoggerError(m, e, a)
    \/ \E m \in Messages, a \in ArgLists : LoggerTrace(m, a)

LogSpec == LogInit /\ [][LogNext]_vars

\* the page under StrictMode: the mount effect runs twice, so invocations
\* overlap; the user clicks but does not type
StrictNext ==
    \/ Mount
    \/ Remount
    \/ ClickAddItem
    \/ ClickRefresh
    \/ DismissError
    \/ ClickCancelCreate
    \/ ClickSave
    \/ ClickCancelEdit
    \/ \E i \in 1..Len(items) : ClickEdit(i)
    \/ \E i \in 1..Len(items) : ClickDelete(i)
    \/ \E p \in Procs : ServerHandle(p)
    \/ \E p \in Procs : FetchRejects(p)
    \/ \E p \in Procs : FetchResolves(p)
    \/ \E p \in Procs : JsonSettles(p)
    \/ \E p \in Procs : TextSettles(p)

StrictSpec == Init /\ [][StrictNext]_vars

\* ids deleteItem may be handed: one the backend may hold, one it never holds
DeleteIds == { "abc", "zzz" }

\* deleteItem called directly, with any id, next to the mount fetch
CallNext ==
    \/ Mount
    \/ \E id \in DeleteIds : deleteItem(id)
    \/ \E p \in Procs : ServerHandle(p)
    \/ \E p \in Procs : FetchRejects(p)
    \/ \E p \in Procs : FetchResolves(p)
    \/ \E p \in Procs : JsonSettles(p)
    \/ \E p \in Procs : TextSettles(p)

CallSpec == Init /\ [][CallNext]_vars

----------------------------------------------------------------------------
(* Properties *)

Finished(kind) == ev.step = "finish" /\ ev.kind = kind

\* a step in which some invocation puts a request on the wire
SendsRequest ==
    \E p \in Procs : ops'[p].pc = "req" /\ ops'[p] # ops[p]

\* C1 (as claimed): whenever createItem finishes after its POST went through,
\* the in-memory list equals the backend's collection.
C1_RefetchInvariant ==
    (Finished("create") /\ ev.ownOut = "ok") => items = server

\* C1 (amended): whenever createItem finishes after its POST went through and
\* the refresh GET answered with a JSON array, the in-memory list equals the
\* backend's collection.
C1_RefetchInvariantWhenGetSucceeds ==
    (Finished("create") /\ ev.ownOut = "ok" /\ ev.getOut = "array")
        => items = server

C1_Witness ==
    /\ Finished("create") /\ ev.ownOut = "ok" /\ ev.getOut = "array"
    /\ items = server
    /\ Len(items) > 0

\* C2: a call of updateItem with an item whose id is undefined or empty sends
\* no HTTP request and changes neither the in-memory list nor loading.
C2_UpdateWithoutIdIsSkipped ==
    [][ (/\ ev'.kind = "update"
         /\ ev'.step \in {"skip", "start"}
         /\ editingItem # Null
         /\ Falsy(editingItem[1].id))
        => (/\ ~SendsRequest
            /\ ops' = ops
            /\ items' = items
            /\ loading' = loading
            /\ server' = server) ]_vars

C2_Witness ==
    /\ ev.kind = "update" /\ ev.step = "skip"
    /\ editingItem # Null /\ editingItem[1].id = ""
    /\ Len(items) > 0
    /\ \A p \in Procs : ~Active(p)

\* C3: a step of a deleteItem invocation that has issued no refresh leaves the
\* in-memory list unchanged, and when the invocation finishes after a
\* non-success status the error message is set, the invocation has sent no GET
\* and no request is left in flight.
C3_DeleteFailureKeepsList ==
    [][ (ev'.kind = "delete" /\ ev'.gets = 0)
        => (/\ items' = items
            /\ (ev'.step = "finish" /\ ev'.ownOut \in {"status", "text"})
                  => (/\ error' # Null
                      /\ ~SendsRequest
                      /\ \A p \in Procs : ~InFlight(p)')) ]_vars

C3_Witness ==
    /\ Finished("delete") /\ ev.ownOut = "status" /\ ev.ownStatus = 404
    /\ ev.gets = 0
    /\ Len(items) > 0
    /\ error = HttpErrorMessage(404)

\* C4: when fetchItems ends because its GET returned a non-success status N or
\* was rejected, the in-memory list is empty and the error message is set; for
\* a status failure the message contains N.
C4_ListFailureClearsList ==
    (ev.step = "finish" /\ ev.getOut \in {"status", "reject"})
        => (/\ items = <<>>
            /\ error # Null
            /\ ev.getOut = "status" => Contains(error, ToString(ev.getStatus)))

C4_Witness ==
    /\ Finished("list") /\ ev.getOut = "status" /\ ev.getStatus = 500
    /\ items = <<>>
    /\ Contains(error, "500")
    /\ Len(server) > 0

\* C5: every request is put on the wire with loading set, loading is false
\* whenever an operation has just finished (whatever its outcome), and, every
\* HTTP call eventually returning or rejecting, loading = TRUE leads to
\* loading = FALSE.
C5_LoadingIsReleased ==
    /\ [][SendsRequest => loading']_vars
    /\ [](ev.step = "finish" => ~loading)
    /\ (loading ~> ~loading)

C5_Witness ==
    /\ Finished("update") /\ ev.ownOut = "parse"
    /\ ~loading
    /\ \A p \in Procs : ~Active(p)

\* C6: no POST and no PUT is ever on the wire whose item has an empty or
\* whitespace-only name.
C6_OnlyNamedItemsArePersisted ==
    \A p \in Procs :
        (Active(p) /\ ops[p].pc = "req" /\ Method(ops[p]) \in {"POST", "PUT"})
            => Trim(ops[p].arg[1].name) # <<>>

\* the mutation's own request went through: a success status and, where the
\* body is parsed (create, update), a body that parsed
OwnSucceeded == Ok(ev.ownStatus) /\ ev.ownOut # "parse" /\ ev.ownOut # "reject"

Mutations == {"create", "update", "delete"}

\* C7: when a mutation finishes it has sent exactly one GET if its own request
\* went through and none otherwise, and after that GET the in-memory list is
\* the array the GET returned (the backend's collection), or empty when the
\* GET did not yield an array; nothing of the old list is kept.
C7_RefetchExactlyOnSuccess ==
    (ev.step = "finish" /\ ev.kind \in Mutations)
        => (/\ ev.gets = (IF OwnSucceeded THEN 1 ELSE 0)
            /\ ev.gets = 1 =>
                 items = (IF ev.getOut = "array" THEN server ELSE <<>>))

C7_Witness ==
    /\ Finished("delete") /\ OwnSucceeded
    /\ ev.gets = 1 /\ ev.getOut = "array"
    /\ items = server
    /\ Len(items) > 0

\* C8: when createItem finishes after its POST went through, the create form
\* is closed and the draft is the empty default.
C8_SuccessfulCreateResetsForm ==
    (Finished("create") /\ OwnSucceeded)
        => (showCreateForm = FALSE /\ newItem = EmptyDraft)

C8_Witness ==
    /\ Finished("create") /\ OwnSucceeded
    /\ showCreateForm = FALSE /\ newItem = EmptyDraft
    /\ \E i \in 1..Len(server) : Trim(server[i].name) # <<>> /\ server[i].id = "1"

\* C9: no step of a createItem invocation whose POST has not gone through
\* changes the draft or the form-open flag, and when the invocation finishes
\* because the POST returned a non-success status or was rejected the error
\* message is set.
C9_FailedCreateKeepsDraft ==
    [][ (ev'.kind = "create" /\ ev'.ownOut # "ok")
        => (/\ newItem' = newItem
            /\ showCreateForm' = showCreateForm
            /\ (ev'.step = "finish" /\ ev'.ownOut \in {"status", "text", "reject"})
                  => error' # Null) ]_vars

C9_Witness ==
    /\ Finished("create") /\ ev.ownOut = "status" /\ ev.ownStatus = 500
    /\ showCreateForm
    /\ newItem # EmptyDraft
    /\ error = HttpErrorMessage(500)

\* C10: when updateItem finishes after its PUT went through, it has re-fetched
\* the list (one GET) and the edit target is null.
C10_SuccessfulUpdateClearsEditing ==
    (Finished("update") /\ OwnSucceeded)
        => (ev.gets = 1 /\ editingItem = Null)

C10_Witness ==
    /\ Finished("update") /\ OwnSucceeded
    /\ ev.gets = 1 /\ ev.getOut = "array"
    /\ editingItem = Null
    /\ items = server

\* C11: when fetchItems ends after its GET succeeded with a JSON body that is
\* not an array, the in-memory list is empty and no error is set.
C11_NonArrayBodyIsEmptyList ==
    (ev.step = "finish" /\ ev.getOut = "nonarray")
        => (items = <<>> /\ error = Null)

C11_Witness ==
    /\ Finished("list") /\ ev.getOut = "nonarray"
    /\ items = <<>> /\ error = Null
    /\ Len(server) > 0

\* C12: with list requests overlapping, a fetchItems that ends replaces the
\* in-memory list by what its own response carried (the array, else empty),
\* whatever was issued or applied before, and leaves every other pending
\* invocation untouched: nothing is cancelled.
C12_LastArrivalWins ==
    [][ \A p \in Procs :
          (Active(p) /\ ops'[p] = Idle /\ ops[p].call = "get"
             /\ ev'.step = "finish")
            => (/\ items' = (IF ev'.getOut = "array" THEN ops[p].data ELSE <<>>)
                /\ \A q \in Procs \ {p} : ops'[q] = ops[q]) ]_vars

\* the response of the request issued first arrives last, after a delete and
\* its refresh: the list shown is that older snapshot
C12_Witness ==
    /\ Finished("list") /\ ev.getOut = "array"
    /\ \A p \in Procs : ~Active(p)
    /\ items # server
    /\ Len(items) > Len(server)

\* C13: fetchItems, createItem, updateItem (given an id) and deleteItem start
\* whether or not loading is set, and a started operation has its request on
\* the wire; what loading does is disable Refresh, Create Item, Save, Edit
\* and Delete.
C13_LoadingIsAdvisory ==
    /\ (mounted /\ CanStart)
         => (/\ ENABLED (fetchItems /\ UNCHANGED mounted)
             /\ ENABLED createItem(newItem)
             /\ ENABLED updateItem(Widget)
             /\ ENABLED deleteItem(Widget.id))
    /\ ev.step = "start"
         => \E p \in Procs : InFlight(p) /\ ops[p].kind = ev.kind
    /\ loading
         => (/\ ~ENABLED ClickRefresh
             /\ ~ENABLED ClickCreateItem
             /\ ~ENABLED ClickSave
             /\ \A i \in 1..Len(items) : ~ENABLED ClickEdit(i) /\ ~ENABLED ClickDelete(i))

\* a second fetchItems has started while the first is in flight
C13_Witness ==
    /\ ev.step = "start" /\ ev.kind = "list"
    /\ loading
    /\ \A p \in Procs : InFlight(p)

\* C14: the start of fetchItems clears the error; the start of createItem,
\* updateItem or deleteItem leaves it as it was, and so does every step of
\* such an operation before it fails or reaches its refresh.
C14_OnlyListClearsErrorAtStart ==
    [][ /\ ev'.step = "start"
          => (IF ev'.kind = "list" THEN error' = Null ELSE error' = error)
        /\ (ev'.kind \in Mutations /\ ev'.step \in {"server", "response"}
              /\ ev'.gets = 0)
          => error' = error ]_vars

C14_Witness ==
    /\ ev.kind = "create" /\ ev.step = "server"
    /\ error # Null
    /\ loading

\* C15: a control that only sets local state (Edit, the form inputs, Cancel of
\* either form, Add Item, dismissing the error) sends no request and leaves
\* the in-memory list, the pending invocations and the backend unchanged; the
\* edit target is one item or none.
C15_EditingIsLocal ==
    /\ [][ ev'.kind = "ui"
           => (/\ ~SendsRequest
               /\ ops' = ops
               /\ items' = items
               /\ server' = server) ]_vars
    /\ [](Len(editingItem) <= 1)

\* a field of the item under edit has been changed; the row still shows the
\* served value
C15_Witness ==
    /\ ev = UiEv
    /\ editingItem # Null
    /\ \E i \in 1..Len(items) : EditFormAt(i) /\ items[i] # editingItem[1]
    /\ items = server
    /\ \A p \in Procs : ~Active(p)

\* C16 (as claimed): no call of a logger method throws.
C16_LoggerNeverThrows == ~logger.threw

\* C17 (as claimed): a call of debug or trace writes one line in development
\* mode and none otherwise; a call of info, warn or error writes exactly one
\* line in every mode.
C17_LinesPerCall ==
    logger.call # "none"
        => Len(logger.out) =
             (IF logger.call \in {"debug", "trace"} /\ logger.NODE_ENV # "development"
              THEN 0 ELSE 1)

\* C18: deleteItem starts for any id, in the in-memory list or not; its start
\* puts exactly one DELETE for that id on the wire and touches nothing else
\* pending; and when it finishes, whether it went on to the refresh or set the
\* error is the backend's answer alone.
C18_DeleteHasNoLocalCheck ==
    /\ [](CanStart => \A id \in DeleteIds : ENABLED deleteItem(id))
    /\ [][ (ev'.kind = "delete" /\ ev'.step = "start")
           => \E p \in Procs :
                /\ ops[p] = Idle
                /\ InFlight(p)' /\ Method(ops'[p]) = "DELETE"
                /\ ops'[p].arg[1] \in DeleteIds
                /\ \A q \in Procs \ {p} : ops'[q] = ops[q]
                /\ items' = items ]_vars
    /\ [](Finished("delete")
            => (/\ ev.gets = 1 <=> Ok(ev.ownStatus)
                /\ ev.gets = 0 => error # Null))

\* a DELETE is on the wire for an id that the non-empty list does not hold
C18_Witness ==
    /\ Len(items) > 0
    /\ \E p \in Procs :
         /\ InFlight(p) /\ Method(ops[p]) = "DELETE"
         /\ ops[p].arg[1] \notin IdsOf(items)

\* C19: with every operation started from the page's controls and one fetch
\* at mount, at most one invocation is pending at a time and loading is set
\* whenever one is, the refresh nested in a mutation included.
C19_OneRequestAtATime ==
    /\ Cardinality({ p \in Procs : Active(p) }) <= 1
    /\ \A p \in Procs : Active(p) => loading

C19_Witness ==
    /\ \E p \in Procs :
         /\ ops[p].kind = "update" /\ ops[p].call = "get" /\ InFlight(p)
         /\ \A q \in Procs \ {p} : ~Active(q)
    /\ loading

\* C20: operations not overlapping, when an operation that sent a request
\* finishes, the error is set exactly if the last HTTP call it made failed
\* (its own request when it sent no GET, its GET otherwise); so a mutation
\* that went through and whose refresh succeeded ends with no error.
C20_ErrorReflectsLastCall ==
    ev.step = "finish"
        => (error # Null
              <=> (IF ev.gets > 0
                   THEN ev.getOut \in {"status", "reject", "parse"}
                   ELSE ev.ownOut \in {"status", "text", "reject", "parse"}))

\* a create started after the mount fetch ended, which went through with its
\* refresh, ends with no error
C20_Witness ==
    /\ Finished("create") /\ OwnSucceeded
    /\ ev.gets = 1 /\ ev.getOut \in {"array", "nonarray"}
    /\ error = Null
    /\ nOps = 2

\* C21: when a mutation finishes after its own request went through and the
\* GET of its refresh failed, the in-memory list is empty and the error is the
\* GET's failure message, and the mutation has still applied its success
\* effects (create: form closed, draft reset; update: edit target null) and
\* did not go through its own catch.
C21_RefreshFailureIsAbsorbed ==
    (/\ ev.step = "finish" /\ ev.kind \in Mutations
     /\ ev.gets = 1 /\ ev.getOut \in {"status", "reject", "parse"})
        => (/\ items = <<>>
            /\ error = (CASE ev.getOut = "status" -> HttpErrorMessage(ev.getStatus)
                          [] ev.getOut = "reject" -> FetchRejectMessage
                          [] OTHER -> JsonParseMessage)
            /\ ev.ownOut = "ok"
            /\ ev.kind = "create" => (showCreateForm = FALSE /\ newItem = EmptyDraft)
            /\ ev.kind = "update" => editingItem = Null)

C21_Witness ==
    /\ Finished("update") /\ ev.ownOut = "ok"
    /\ ev.gets = 1 /\ ev.getOut = "status" /\ ev.getStatus = 500
    /\ items = <<>> /\ Len(server) > 0
    /\ error = HttpErrorMessage(500)
    /\ editingItem = Null

\* C22: a createItem or updateItem whose request got a success status and a
\* body that does not parse ends there: the error is the parse failure, no GET
\* is sent, and the list, the form-open flag, the draft and the edit target
\* are left as they were; a deleteItem never reads the body of its response
\* as JSON, and when its fetch resolves with a success status that same step
\* sends the refresh GET.
C22_UnparseableBodyIsFailure ==
    /\ [][ \A p \in Procs :
             (/\ ops[p].call = "own" /\ ops[p].pc = "json"
              /\ ops[p].bkind = "garbage" /\ ops'[p] # ops[p])
               => (/\ Ok(ops[p].status)
                   /\ ops'[p] = Idle
                   /\ ev'.step = "finish" /\ ev'.gets = 0
                   /\ error' = JsonParseMessage
                   /\ ~SendsRequest
                   /\ items' = items
                   /\ showCreateForm' = showCreateForm
                   /\ newItem' = newItem
                   /\ editingItem' = editingItem) ]_vars
    /\ [][ \A p \in Procs :
             (/\ ops[p].kind = "delete" /\ ops[p].call = "own"
              /\ ops[p].pc = "resp" /\ Ok(ops[p].status) /\ ops'[p] # ops[p]
              /\ ev'.ownOut # "reject")
               => (/\ ops'[p].call = "get" /\ InFlight(p)'
                   /\ ops'[p].gets = 1) ]_vars
    /\ [](\A p \in Procs : ops[p].kind = "delete" /\ ops[p].call = "own"
                             => ops[p].pc # "json")

\* the backend holds the created item, the list does not, the form is open
C22_Witness ==
    /\ Finished("create") /\ ev.ownOut = "parse" /\ ev.ownStatus = 201
    /\ ev.gets = 0
    /\ error = JsonParseMessage
    /\ showCreateForm /\ newItem # EmptyDraft
    /\ Len(server) = Len(items) + 1

\* C23: no step of an updateItem invocation that has issued no refresh changes
\* the in-memory list or the edit target, and when the invocation finishes
\* because the PUT returned a non-success status or was rejected, the error is
\* set and no GET has been or is being sent.
C23_FailedUpdateKeepsEdits ==
    [][ (ev'.kind = "update" /\ ev'.gets = 0)
        => (/\ items' = items
            /\ editingItem' = editingItem
            /\ (ev'.step = "finish" /\ ev'.ownOut \in {"status", "text", "reject"})
                  => (/\ error' # Null
                      /\ ~SendsRequest
                      /\ \A p \in Procs : ~InFlight(p)')) ]_vars

\* the edit form still holds the user's change after the PUT was refused
C23_Witness ==
    /\ Finished("update") /\ ev.ownOut = "status" /\ ev.ownStatus = 404
    /\ ev.gets = 0
    /\ error = HttpErrorMessage(404)
    /\ editingItem # Null
    /\ \E i \in 1..Len(items) : EditFormAt(i) /\ items[i] # editingItem[1]

====
